---- MODULE Spec2Model ----
(***************************************************************************)
(* Model of the coding-agent command line programs:                        *)
(*   - the tool-calling agent           (chat / callAgent / executeTool),  *)
(*   - the streaming chat without tools (chat),                            *)
(*   - the non-streaming chat           (chat / callChat).                 *)
(* A text is a sequence of chunks; a chunk is one character or one string  *)
(* literal of the source, so that concatenation is \o.                     *)
(***************************************************************************)
EXTENDS Integers, Sequences, FiniteSets, TLC

\* ---------------------------------------------------------------- bounds
MaxRequests == 2      \* model requests issued in one run
MaxFragments == 2     \* fragments delivered by one streamed response
MaxBatch == 2         \* tool calls carried by one batch
MaxContent == 3       \* characters of a file a tool is called on directly
MaxOld == 2           \* characters of an oldString given to editFile

\* ------------------------------------------------------- text utilities
NL == "\n"

\* Array.prototype.join
RECURSIVE Join(_, _)
Join(ss, sep) ==
  IF ss = <<>> THEN <<>>
  ELSE IF Len(ss) = 1 THEN ss[1]
  ELSE ss[1] \o sep \o Join(Tail(ss), sep)

\* does pat occur in s at position i (1-based)
MatchAt(s, pat, i) ==
  /\ i >= 1
  /\ i + Len(pat) - 1 <= Len(s)
  /\ \A k \in 1..Len(pat) : s[i + k - 1] = pat[k]

\* String.prototype.indexOf, 1-based, 0 when absent
IndexOf(s, pat) ==
  IF \E i \in 1..(Len(s) + 1) : MatchAt(s, pat, i)
  THEN CHOOSE i \in 1..(Len(s) + 1) :
         /\ MatchAt(s, pat, i)
         /\ \A j \in 1..(i - 1) : ~MatchAt(s, pat, j)
  ELSE 0

\* a test that every string passes
IncludesAlways(s, pat) == TRUE

\* String.prototype.includes
Includes(s, pat) == IndexOf(s, pat) # 0

\* String.prototype.split with a string separator
RECURSIVE Split(_, _)
Split(s, sep) ==
  IF sep = <<>>
  THEN [k \in 1..Len(s) |-> <<s[k]>>]
  ELSE LET i == IndexOf(s, sep) IN
       IF i = 0 THEN <<s>>
       ELSE <<SubSeq(s, 1, i - 1)>> \o Split(SubSeq(s, i + Len(sep), Len(s)), sep)

\* Array.prototype.slice(start, end) with its relative-index rules
Slice(arr, start, end) ==
  LET n == Len(arr)
      from == IF start < 0 THEN (IF n + start < 0 THEN 0 ELSE n + start)
              ELSE (IF start > n THEN n ELSE start)
      to == IF end < 0 THEN (IF n + end < 0 THEN 0 ELSE n + end)
            ELSE (IF end > n THEN n ELSE end)
  IN IF to <= from THEN <<>> ELSE SubSeq(arr, from + 1, to)

\* the replacement text of String.prototype.replace(string, string):
\* $$, $&, $` and $' are substitution patterns, everything else is literal
RECURSIVE GetSubstitution(_, _, _, _)
GetSubstitution(repl, matched, before, after) ==
  IF repl = <<>> THEN <<>>
  ELSE IF repl[1] = "$" /\ Len(repl) >= 2 /\ repl[2] \in {"$", "&", "`", "'"}
       THEN (CASE repl[2] = "$" -> <<"$">>
               [] repl[2] = "&" -> matched
               [] repl[2] = "`" -> before
               [] repl[2] = "'" -> after)
            \o GetSubstitution(SubSeq(repl, 3, Len(repl)), matched, before, after)
       ELSE <<repl[1]>> \o GetSubstitution(Tail(repl), matched, before, after)

\* String.prototype.replace with a string pattern: first occurrence only
Replace(s, pat, repl) ==
  LET i == IndexOf(s, pat) IN
  IF i = 0 THEN s
  ELSE LET before == SubSeq(s, 1, i - 1)
           after == SubSeq(s, i + Len(pat), Len(s))
       IN before \o GetSubstitution(repl, pat, before, after) \o after

\* String.prototype.trim
IsSpace(c) == c \in {" ", NL}
RECURSIVE TrimStart(_)
TrimStart(s) == IF s # <<>> /\ IsSpace(Head(s)) THEN TrimStart(Tail(s)) ELSE s
RECURSIVE TrimEnd(_)
TrimEnd(s) ==
  IF s # <<>> /\ IsSpace(s[Len(s)]) THEN TrimEnd(SubSeq(s, 1, Len(s) - 1)) ELSE s
Trim(s) == TrimEnd(TrimStart(s))

\* ------------------------------------------------- the outside world
\* process.cwd()
Cwd == "/cwd"

\* the paths of the working tree, in the order glob lists them
PathOrder == <<"f.js", "node_modules/m.js">>
Paths == {PathOrder[k] : k \in 1..Len(PathOrder)}

\* a file system maps the paths that exist to their content
InitialFiles == [p \in Paths |-> <<"a", NL, "b">>]

\* the glob library: which paths a pattern selects, and the ignore option
GlobMatches(pattern, p) ==
  CASE pattern = "**/*.js" -> TRUE
    [] pattern = "*.js" -> p = "f.js"
    [] OTHER -> pattern = p
Ignored(p) == p = "node_modules/m.js"
RECURSIVE Glob(_, _, _)
Glob(pattern, fs, k) ==
  IF k > Len(PathOrder) THEN <<>>
  ELSE (IF /\ PathOrder[k] \in DOMAIN fs
           /\ GlobMatches(pattern, PathOrder[k])
           /\ ~Ignored(PathOrder[k])
        THEN <<PathOrder[k]>> ELSE <<>>) \o Glob(pattern, fs, k + 1)

\* JSON.stringify of an array of strings
JSONStringify(arr) ==
  <<"[">> \o Join([k \in 1..Len(arr) |-> <<"\"">> \o arr[k] \o <<"\"">>], <<",">>) \o <<"]">>

\* path.dirname, for the paths the model uses
Dirname(p) == IF p = "f.js/g.js" THEN "f.js" ELSE IF p = "node_modules/m.js" THEN "node_modules" ELSE "."

\* what exec(command) does: resolve with stdout and stderr (exit status 0),
\* or reject with an error (non-zero exit status, or the shell cannot run)
ExecOutcomes ==
  { [kind |-> "resolved", stdout |-> <<"f.js:1:a", NL>>, stderr |-> <<>>],
    [kind |-> "resolved", stdout |-> <<>>, stderr |-> <<"grep: warning">>],
    [kind |-> "rejected", cause |-> "exit 1", message |-> <<"Command failed: grep">>],
    [kind |-> "rejected", cause |-> "spawn", message |-> <<"spawn /bin/sh ENOENT">>] }

\* ---------------------------------------------------- executeCommand
\* null is an absent field: {data: null, errorCode: e} is [errorCode |-> e]
executeCommand(outcome) ==
  IF outcome.kind = "resolved"
  THEN IF outcome.stderr # <<>> /\ outcome.stdout = <<>>
       THEN [errorCode |-> outcome.stderr]
       ELSE [data |-> outcome.stdout]
  ELSE [errorCode |-> outcome.message]

\* ------------------------------------------------------------ the tools
\* A tool returns [threw |-> FALSE, value |-> text, files |-> fs'] or, when
\* an exception leaves it, [threw |-> TRUE, message |-> text, files |-> fs'].
Returned(v, fs) == [threw |-> FALSE, value |-> v, files |-> fs]
Threw(m, fs) == [threw |-> TRUE, message |-> m, files |-> fs]

Arg(args, k, default) == IF k \in DOMAIN args THEN args[k] ELSE default
Truthy(args, k) == k \in DOMAIN args /\ args[k] = TRUE

\* error.message of a failed file system call
ENOENT(p) == <<"ENOENT: no such file or directory, open '", p, "'">>
EEXIST(p) == <<"EEXIST: file already exists, mkdir '", p, "'">>

findFiles(args, fs) ==
  IF "pattern" \notin DOMAIN args
  THEN Returned(<<"Error finding files: ", "invalid pattern">>, fs)
  ELSE LET found == Glob(args.pattern, fs, 1)
           files == [k \in 1..Len(found) |-> <<Cwd, "/", found[k]>>]
       IN Returned(JSONStringify(files), fs)

searchFileContents(args, fs, outcome) ==
  LET r == executeCommand(outcome) IN
  IF "errorCode" \in DOMAIN r /\ r.errorCode # <<>> /\ ~("data" \in DOMAIN r /\ r.data # <<>>)
  THEN Returned(<<"No matches found.">>, fs)
  ELSE IF "data" \in DOMAIN r
       THEN Returned(Trim(r.data), fs)
       ELSE Threw(<<"Cannot read properties of null (reading 'trim')">>, fs)

readFile(args, fs) ==
  LET filePath == args.filePath
      offset == Arg(args, "offset", 1)
      limit == Arg(args, "limit", 2000)
  IN IF filePath \notin DOMAIN fs
     THEN Returned(<<"Error reading file: ">> \o ENOENT(filePath), fs)
     ELSE LET lines == Split(fs[filePath], <<NL>>)
              selected == Slice(lines, offset - 1, offset - 1 + limit)
              selectedLines ==
                Join([index \in 1..Len(selected) |->
                        <<ToString(offset + index - 1), " | ">> \o selected[index]],
                     <<NL>>)
          IN Returned(selectedLines, fs)

createFile(args, fs) ==
  LET filePath == args.filePath IN
  IF Dirname(filePath) \in DOMAIN fs
  THEN Returned(<<"Error creating file: ">> \o EEXIST(Dirname(filePath)), fs)
  ELSE Returned(<<"File created successfully at ", filePath>>,
                [p \in DOMAIN fs \cup {filePath} |->
                   IF p = filePath THEN args.content ELSE fs[p]])

editFile(args, fs) ==
  LET filePath == args.filePath IN
  IF filePath \notin DOMAIN fs
  THEN Returned(<<"Error editing file: ">> \o ENOENT(filePath), fs)
  ELSE LET content == fs[filePath] IN
       IF ~Includes(content, args.oldString)
       THEN Returned(<<"Error: oldString not found in file. Please ensure exact matching including indentation.">>, fs)
       ELSE LET newContent ==
                  IF Truthy(args, "replaceAll")
                  THEN Join(Split(content, args.oldString), args.newString)
                  ELSE Replace(content, args.oldString, args.newString)
            IN Returned(<<"File edited successfully at ", filePath>>,
                        [fs EXCEPT ![filePath] = newContent])

\* ------------------------------------------------------- the registry
\* availableTools is an object literal: a lookup that misses the five own
\* properties continues in Object.prototype
OwnTools == {"findFiles", "searchFileContents", "readFile", "createFile", "editFile"}
ObjectPrototype ==
  ("toString" :> "Object.prototype.toString") @@
  ("toLocaleString" :> "Object.prototype.toLocaleString") @@
  ("valueOf" :> "Object.prototype.valueOf") @@
  ("hasOwnProperty" :> "Object.prototype.hasOwnProperty") @@
  ("isPrototypeOf" :> "Object.prototype.isPrototypeOf") @@
  ("propertyIsEnumerable" :> "Object.prototype.propertyIsEnumerable") @@
  ("constructor" :> "Object") @@
  ("__proto__" :> "Object.prototype")
Undefined == "undefined"

availableTools(functionName) ==
  IF functionName \in OwnTools THEN functionName
  ELSE IF functionName \in DOMAIN ObjectPrototype THEN ObjectPrototype[functionName]
  ELSE Undefined

\* tool(functionArgs): the call of the value found in the registry, in a
\* module (strict mode), so that this is undefined
CallTool(tool, args, fs, outcome) ==
  CASE tool = "findFiles" -> findFiles(args, fs)
    [] tool = "searchFileContents" -> searchFileContents(args, fs, outcome)
    [] tool = "readFile" -> readFile(args, fs)
    [] tool = "createFile" -> createFile(args, fs)
    [] tool = "editFile" -> editFile(args, fs)
    [] tool = "Object.prototype.toString" -> Returned(<<"[object Undefined]">>, fs)
    [] tool = "Object" -> Returned(args, fs)
    [] tool = "Object.prototype" -> Threw(<<"tool is not a function">>, fs)
    [] OTHER -> Threw(<<"Cannot convert undefined or null to object">>, fs)

\* executeTool that throws for an unknown name and catches nothing
executeToolThrows(toolCall, fs, outcome) ==
  LET functionName == toolCall.function.name
      tool == availableTools(functionName)
  IN IF tool = Undefined
     THEN Threw(<<"Tool ", functionName, " not found.">>, fs)
     ELSE CallTool(tool, toolCall.function.arguments, fs, outcome)

\* the value executeTool returns for one tool call, and the file system left
executeToolResult(toolCall, fs, outcome) ==
  LET functionName == toolCall.function.name
      functionArgs == toolCall.function.arguments
      tool == availableTools(functionName)
  IN IF tool = Undefined
     THEN Returned(<<"Error: Tool ", functionName, " not found.">>, fs)
     ELSE LET r == CallTool(tool, functionArgs, fs, outcome) IN
          IF r.threw
          THEN Returned(<<"Error executing ", functionName, ": ">> \o r.message, r.files)
          ELSE r

\* --------------------------------------------------- the model's inputs
\* the lines the user types; the empty line is one of them
UserLines == {<<>>, <<"h", "i">>}

\* the tool calls the model backend asks for
ToolCall(name, args) == [function |-> [name |-> name, arguments |-> args]]
CallPool ==
  << ToolCall("editFile", [filePath |-> "f.js", oldString |-> <<"x">>, newString |-> <<"y">>]),
     ToolCall("findFiles", [pattern |-> "**/*.js"]),
     ToolCall("deleteFile", [filePath |-> "f.js"]),
     ToolCall("readFile", [filePath |-> "f.js", offset |-> 2, limit |-> 1]),
     ToolCall("toString", [filePath |-> "f.js"]),
     ToolCall("searchFileContents", [pattern |-> <<"a">>]),
     ToolCall("createFile", [filePath |-> "f.js", content |-> <<"x">>]) >>

\* the batches: the pool cut into runs of MaxBatch consecutive calls (the
\* last run wraps around), and the batch of the first call alone
Window(start, len) ==
  [k \in 1..len |-> CallPool[((start + k - 2) % Len(CallPool)) + 1]]
Batches ==
  {Window(start, MaxBatch) : start \in {k \in 1..Len(CallPool) : (k - 1) % MaxBatch = 0}}
  \cup {Window(1, 1)}

\* the fragments of a streamed response: part.message.content and, when the
\* fragment carries a batch, part.message.tool_calls
Part(content) == [message |-> [content |-> content]]
PartWith(content, calls) == [message |-> [content |-> content, tool_calls |-> calls]]
TextParts == {Part(<<"a">>), Part(<<"b">>)}
Parts ==
  TextParts \cup {PartWith(<<>>, <<>>)}
  \cup {PartWith(IF Len(b) = 1 THEN <<"a">> ELSE <<>>, b) : b \in Batches}
HasBatch(part) == "tool_calls" \in DOMAIN part.message /\ part.message.tool_calls # <<>>

\* the replies of the non-streaming backend: the whole text in one body,
\* with or without a batch of tool calls
Replies ==
  {Part(<<>>), Part(<<"a">>), Part(<<"a", "b">>), PartWith(<<"a">>, Window(1, 1))}

\* -------------------------------------------------------------- the state
VARIABLES
  program,       \* which of the three entry scripts runs
  pc,            \* where chat() is suspended
  pending,       \* the asynchronous operations started and not yet settled
  messages,      \* the conversation history
  response,      \* the fragments the response iterator has yielded this turn
  fullResponse,  \* callAgent's local
  toolCalls,     \* callAgent's local, then chat's
  idx,           \* position of the for-of loop over toolCalls (1-based)
  tool,          \* executeTool's local: what the registry lookup found
  files,         \* the file system
  stdout,        \* what was written to the terminal
  sent,          \* the history the last model request carried
  requests,      \* model requests issued
  completed,     \* model turns that returned to chat()
  inputs,        \* the lines read from the user, in order
  uncaught,      \* the rejection that left chat(), "none" while it runs
  mutator,       \* the function whose messages.push ran last, "none" before any
  direct         \* the tool function called directly, its arguments and result

vars == <<program, pc, pending, messages, response, fullResponse, toolCalls,
          idx, tool, files, stdout, sent, requests, completed, inputs, uncaught,
          mutator, direct>>

Op(name) == [op |-> name]
ToolOp(i) == [op |-> "executeTool", i |-> i]
\* an operation that is started and not awaited stays in flight
SettleNone(ops, o) == ops

\* await: chat() resumes when the operation it waits for has settled
Settle(ops, o) == ops \ {o}

\* unshift in place of push
PushFront(arr, m) == <<m>> \o arr

\* Array.prototype.push
Push(arr, m) == Append(arr, m)

\* a test that every array passes
NoToolCallsAlways(calls) == Len(calls) >= 0

\* a loop that also stops after a batch of one call
NoToolCallsShortBatch(calls) == Len(calls) <= 1

\* !toolCalls.length
NoToolCalls(calls) == Len(calls) = 0

\* a loop that stops one call short
MoreCallsShort(i, calls) == i < Len(calls) - 1

\* the for-of loop over toolCalls has another element after the i-th
MoreCalls(i, calls) == i < Len(calls)

\* process.stdout.write: the terminal receives the chunks of the text
Write(out, text) == out \o [k \in 1..Len(text) |-> [text |-> text[k]]]
YouPrompt == <<"You", ": ">>
AgentPrompt == <<"Agent", ": ">>

\* the fragment is kept for the end of the turn
EmitBuffered(out, part) == out

\* process.stdout.write(part.message.content): the fragment goes out as it arrives
Emit(out, part) == Write(out, part.message.content)

\* console.log of the call's name alone
TraceNameOnly(out, toolCall) ==
  Write(out, <<"[Tool Call: ", toolCall.function.name, "]", NL>>)

\* console.log of the call's name and JSON.stringify(functionArgs)
Trace(out, toolCall) ==
  Write(out, <<"[Tool Call: ", toolCall.function.name, "] inputs: ">>)
    \o <<[json |-> toolCall.function.arguments]>> \o Write(<<>>, <<NL>>)

\* a tool executor that pushes its own result
PushedByExecutor(prog, role) ==
  IF role = "tool" THEN "executeTool"
  ELSE IF prog = "agent" /\ role = "assistant" THEN "callAgent" ELSE "chat"

\* the function that holds the messages.push of a role: in the agent the
\* assistant message is pushed inside callAgent, every other push is in chat
PushedBy(prog, role) ==
  IF prog = "agent" /\ role = "assistant" THEN "callAgent" ELSE "chat"

NoCall == [name |-> "none"]

SystemMessage == [role |-> "system", content |-> <<"Core Identity: You are an interactive CLI tool that helps with software engineering tasks.">>]
\* content: userInput || "(empty)"
UserMessageDefault(userInput) ==
  [role |-> "user", content |-> IF userInput = <<>> THEN <<"(empty)">> ELSE userInput]

UserMessage(userInput) == [role |-> "user", content |-> userInput]
\* name: toolCall.name, which is undefined
ToolMessageNameless(result, toolCall) == [role |-> "tool", content |-> result]

ToolMessage(result, toolCall) ==
  [role |-> "tool", content |-> result, name |-> toolCall.function.name]
\* tool_calls: toolCalls
AssistantMessageAlways(content, calls) ==
  [role |-> "assistant", content |-> content, tool_calls |-> calls]

\* tool_calls: toolCalls.length ? toolCalls : undefined
AssistantMessage(content, calls) ==
  IF calls # <<>>
  THEN [role |-> "assistant", content |-> content, tool_calls |-> calls]
  ELSE [role |-> "assistant", content |-> content]

Init ==
  /\ program \in {"agent", "stream", "no-stream"}
  /\ pc = "AwaitingUser"
  /\ pending = {Op("question")}
  /\ messages = IF program = "agent" THEN <<SystemMessage>> ELSE <<>>
  /\ response = <<>>
  /\ fullResponse = <<>>
  /\ toolCalls = <<>>
  /\ idx = 0
  /\ tool = Undefined
  /\ files = InitialFiles
  /\ stdout = Write(<<>>, YouPrompt)
  /\ sent = <<>>
  /\ requests = 0
  /\ completed = 0
  /\ inputs = <<>>
  /\ uncaught = "none"
  /\ mutator = "none"
  /\ direct = NoCall

\* ------------------------------------------- the tool-calling agent
\* callAgent up to its first await: the prompt, then the request
CallAgentStart(out, history, settled) ==
  /\ requests < MaxRequests
  /\ stdout' = Write(out, AgentPrompt)
  /\ sent' = history
  /\ requests' = requests + 1
  /\ pending' = Settle(pending, settled) \cup {Op("chat")}
  /\ pc' = "AwaitingChat"

\* executeTool up to its await: the trace line, the lookup, the call
ExecuteToolStart(out, i, calls, settled) ==
  /\ stdout' = Trace(out, calls[i])
  /\ tool' = availableTools(calls[i].function.name)
  /\ idx' = i
  /\ pending' = Settle(pending, settled) \cup {ToolOp(i)}
  /\ pc' = "AwaitingTool"

\* terminal.question
QuestionStart(out, settled) ==
  /\ stdout' = Write(out, YouPrompt)
  /\ pending' = Settle(pending, settled) \cup {Op("question")}
  /\ pc' = "AwaitingUser"

\* the user types a line: it is pushed and the first model turn is requested
UserLine(userInput) ==
  /\ program = "agent"
  /\ pc = "AwaitingUser"
  /\ Op("question") \in pending
  /\ inputs' = Append(inputs, userInput)
  /\ messages' = Push(messages, UserMessage(userInput))
  /\ CallAgentStart(stdout, messages', Op("question"))
  /\ UNCHANGED <<program, response, fullResponse, toolCalls, idx, tool, files, completed, uncaught>>
  /\ mutator' = PushedBy(program, "user")
  /\ UNCHANGED direct

\* ollama.chat resolves with the iterator; the for-await asks for a fragment
ChatResolved ==
  /\ program = "agent"
  /\ pc = "AwaitingChat"
  /\ Op("chat") \in pending
  /\ fullResponse' = <<>>
  /\ toolCalls' = <<>>
  /\ response' = <<>>
  /\ pending' = Settle(pending, Op("chat")) \cup {Op("next")}
  /\ pc' = "Streaming"
  /\ UNCHANGED <<program, messages, idx, tool, files, stdout, sent, requests, completed, inputs, uncaught>>
  /\ UNCHANGED <<mutator, direct>>

\* a handler that asks the backend again
CrashRetry(settled, error) ==
  /\ pending' = Settle(pending, settled) \cup {Op("chat")}
  /\ uncaught' = error
  /\ pc' = "AwaitingChat"

\* the rejection leaves callAgent and chat(): nothing handles it
Crash(settled, error) ==
  /\ pending' = Settle(pending, settled)
  /\ uncaught' = error
  /\ pc' = "Crashed"

\* ollama.chat rejects: non-success status or transport failure
ChatRejected ==
  /\ program = "agent"
  /\ pc = "AwaitingChat"
  /\ Op("chat") \in pending
  /\ Crash(Op("chat"), "ollama.chat rejected")
  /\ UNCHANGED <<program, messages, response, fullResponse, toolCalls, idx, tool, files,
                 stdout, sent, requests, completed, inputs>>
  /\ UNCHANGED <<mutator, direct>>

\* one fragment arrives; the last request of a bounded run is answered
\* without a batch, so that every batch of the run is followed by its turn
NextPart(part) ==
  /\ program = "agent"
  /\ pc = "Streaming"
  /\ Op("next") \in pending
  /\ Len(response) < MaxFragments
  /\ HasBatch(part) => requests < MaxRequests
  /\ response' = Append(response, part)
  /\ stdout' = Emit(stdout, part)
  /\ fullResponse' = fullResponse \o part.message.content
  /\ toolCalls' = IF "tool_calls" \in DOMAIN part.message
                  THEN part.message.tool_calls
                  ELSE toolCalls
  /\ pending' = Settle(pending, Op("next")) \cup {Op("next")}
  /\ UNCHANGED <<program, pc, messages, idx, tool, files, sent, requests, completed, inputs, uncaught>>
  /\ UNCHANGED <<mutator, direct>>

\* the stream breaks while it is consumed
StreamFailed ==
  /\ program = "agent"
  /\ pc = "Streaming"
  /\ Op("next") \in pending
  /\ Crash(Op("next"), "response stream failed")
  /\ UNCHANGED <<program, messages, response, fullResponse, toolCalls, idx, tool, files,
                 stdout, sent, requests, completed, inputs>>
  /\ UNCHANGED <<mutator, direct>>

\* the stream ends: callAgent pushes the assistant message and returns; chat
\* either asks the user again or starts the first tool call
StreamDone ==
  /\ program = "agent"
  /\ pc = "Streaming"
  /\ Op("next") \in pending
  /\ messages' = Push(messages, AssistantMessage(fullResponse, toolCalls))
  /\ completed' = completed + 1
  /\ response' = <<>>
  /\ fullResponse' = <<>>
  /\ IF NoToolCalls(toolCalls)
     THEN /\ QuestionStart(Write(stdout, <<NL>>), Op("next"))
          /\ UNCHANGED <<idx, tool>>
     ELSE ExecuteToolStart(Write(stdout, <<NL>>), 1, toolCalls, Op("next"))
  /\ UNCHANGED <<program, toolCalls, files, sent, requests, inputs, uncaught>>
  /\ mutator' = PushedBy(program, "assistant")
  /\ UNCHANGED direct

\* executeTool settles: the result is pushed; chat starts the next call of
\* the batch or, after the last one, the next model turn
ToolSettled(outcome) ==
  /\ program = "agent"
  /\ pc = "AwaitingTool"
  /\ ToolOp(idx) \in pending
  /\ LET toolCall == toolCalls[idx]
         r == executeToolResult(toolCall, files, outcome)
     IN /\ files' = r.files
        /\ IF r.threw
           THEN /\ Crash(ToolOp(idx), "executeTool rejected")
                /\ UNCHANGED <<messages, idx, tool, stdout, sent, requests, mutator>>
           ELSE /\ messages' = Push(messages, ToolMessage(r.value, toolCall))
                /\ mutator' = PushedBy(program, "tool")
                /\ IF MoreCalls(idx, toolCalls)
                   THEN /\ ExecuteToolStart(stdout, idx + 1, toolCalls, ToolOp(idx))
                        /\ UNCHANGED <<sent, requests>>
                   ELSE /\ CallAgentStart(stdout, messages', ToolOp(idx))
                        /\ UNCHANGED <<idx, tool>>
                /\ UNCHANGED uncaught
  /\ UNCHANGED <<program, response, fullResponse, toolCalls, completed, inputs>>
  /\ UNCHANGED direct

\* ---------------------------------------- the streaming chat, no tools
StreamUserLine(userInput) ==
  /\ program = "stream"
  /\ pc = "AwaitingUser"
  /\ Op("question") \in pending
  /\ requests < MaxRequests
  /\ inputs' = Append(inputs, userInput)
  /\ messages' = Push(messages, UserMessage(userInput))
  /\ stdout' = Write(stdout, AgentPrompt)
  /\ sent' = messages'
  /\ requests' = requests + 1
  /\ pending' = Settle(pending, Op("question")) \cup {Op("chat")}
  /\ pc' = "AwaitingChat"
  /\ UNCHANGED <<program, response, fullResponse, toolCalls, idx, tool, files, completed, uncaught>>
  /\ mutator' = PushedBy(program, "user")
  /\ UNCHANGED direct

StreamChatResolved ==
  /\ program = "stream"
  /\ pc = "AwaitingChat"
  /\ Op("chat") \in pending
  /\ fullResponse' = <<>>
  /\ response' = <<>>
  /\ pending' = Settle(pending, Op("chat")) \cup {Op("next")}
  /\ pc' = "Streaming"
  /\ UNCHANGED <<program, messages, toolCalls, idx, tool, files, stdout, sent, requests,
                 completed, inputs, uncaught>>
  /\ UNCHANGED <<mutator, direct>>

StreamChatRejected ==
  /\ program = "stream"
  /\ pc \in {"AwaitingChat", "Streaming"}
  /\ pending \cap {Op("chat"), Op("next")} # {}
  /\ pending' = pending \ {Op("chat"), Op("next")}
  /\ uncaught' = IF pc = "AwaitingChat" THEN "ollama.chat rejected" ELSE "response stream failed"
  /\ pc' = "Crashed"
  /\ UNCHANGED <<program, messages, response, fullResponse, toolCalls, idx, tool, files,
                 stdout, sent, requests, completed, inputs>>
  /\ UNCHANGED <<mutator, direct>>

StreamNextPart(part) ==
  /\ program = "stream"
  /\ pc = "Streaming"
  /\ Op("next") \in pending
  /\ Len(response) < MaxFragments
  /\ response' = Append(response, part)
  /\ stdout' = Emit(stdout, part)
  /\ fullResponse' = fullResponse \o part.message.content
  /\ UNCHANGED <<program, pc, pending, messages, toolCalls, idx, tool, files, sent,
                 requests, completed, inputs, uncaught>>
  /\ UNCHANGED <<mutator, direct>>

StreamTurnDone ==
  /\ program = "stream"
  /\ pc = "Streaming"
  /\ Op("next") \in pending
  /\ messages' = Push(messages, [role |-> "assistant", content |-> fullResponse])
  /\ completed' = completed + 1
  /\ response' = <<>>
  /\ fullResponse' = <<>>
  /\ stdout' = Write(Write(stdout, <<NL>>), YouPrompt)
  /\ pending' = Settle(pending, Op("next")) \cup {Op("question")}
  /\ pc' = "AwaitingUser"
  /\ UNCHANGED <<program, toolCalls, idx, tool, files, sent,
                 requests, inputs, uncaught>>
  /\ mutator' = PushedBy(program, "assistant")
  /\ UNCHANGED direct

\* ------------------------------------------------ the non-streaming chat
NoStreamUserLine(userInput) ==
  /\ program = "no-stream"
  /\ pc = "AwaitingUser"
  /\ Op("question") \in pending
  /\ requests < MaxRequests
  /\ inputs' = Append(inputs, userInput)
  /\ messages' = Push(messages, UserMessage(userInput))
  /\ sent' = messages'
  /\ requests' = requests + 1
  /\ pending' = Settle(pending, Op("question")) \cup {Op("fetch")}
  /\ pc' = "AwaitingFetch"
  /\ UNCHANGED <<program, response, fullResponse, toolCalls, idx, tool, files, stdout,
                 completed, uncaught>>
  /\ mutator' = PushedBy(program, "user")
  /\ UNCHANGED direct

\* fetch resolves with the Response: a non-success status throws, otherwise
\* its body is read
FetchResolved(ok, data) ==
  /\ program = "no-stream"
  /\ pc = "AwaitingFetch"
  /\ Op("fetch") \in pending
  /\ IF ok
     THEN /\ response' = <<data>>
          /\ pending' = Settle(pending, Op("fetch")) \cup {Op("json")}
          /\ pc' = "AwaitingJson"
          /\ UNCHANGED uncaught
     ELSE /\ Crash(Op("fetch"), "Ollama API Error")
          /\ UNCHANGED response
  /\ UNCHANGED <<program, messages, fullResponse, toolCalls, idx, tool, files,
                 stdout, sent, requests, completed, inputs>>
  /\ UNCHANGED <<mutator, direct>>

\* fetch rejects: transport failure
FetchRejected ==
  /\ program = "no-stream"
  /\ pc = "AwaitingFetch"
  /\ Op("fetch") \in pending
  /\ Crash(Op("fetch"), "fetch failed")
  /\ UNCHANGED <<program, messages, response, fullResponse, toolCalls, idx, tool, files,
                 stdout, sent, requests, completed, inputs>>
  /\ UNCHANGED <<mutator, direct>>

\* the body arrives: callChat returns data.message.content, chat pushes it,
\* prints it and asks the user again
JsonResolved ==
  /\ program = "no-stream"
  /\ pc = "AwaitingJson"
  /\ Op("json") \in pending
  /\ LET data == response[1]
     IN /\ messages' = Push(messages, [role |-> "assistant", content |-> data.message.content])
        /\ stdout' = Write(Write(stdout, AgentPrompt \o data.message.content \o <<NL>>), YouPrompt)
  /\ response' = <<>>
  /\ completed' = completed + 1
  /\ pending' = Settle(pending, Op("json")) \cup {Op("question")}
  /\ pc' = "AwaitingUser"
  /\ UNCHANGED <<program, fullResponse, toolCalls, idx, tool, files, sent,
                 requests, inputs, uncaught>>
  /\ mutator' = PushedBy(program, "assistant")
  /\ UNCHANGED direct

\* the body cannot be read or parsed
JsonRejected ==
  /\ program = "no-stream"
  /\ pc = "AwaitingJson"
  /\ Op("json") \in pending
  /\ Crash(Op("json"), "response.json failed")
  /\ UNCHANGED <<program, messages, response, fullResponse, toolCalls, idx, tool, files,
                 stdout, sent, requests, completed, inputs>>
  /\ UNCHANGED <<mutator, direct>>

\* ------------------------------------------------------ specification
Next ==
  \/ \E userInput \in UserLines : UserLine(userInput)
  \/ ChatResolved
  \/ ChatRejected
  \/ \E part \in Parts : NextPart(part)
  \/ StreamFailed
  \/ StreamDone
  \/ \E outcome \in ExecOutcomes : ToolSettled(outcome)
  \/ \E userInput \in UserLines : StreamUserLine(userInput)
  \/ StreamChatResolved
  \/ StreamChatRejected
  \/ \E part \in TextParts : StreamNextPart(part)
  \/ StreamTurnDone
  \/ \E userInput \in UserLines : NoStreamUserLine(userInput)
  \/ \E ok \in BOOLEAN, data \in Replies : FetchResolved(ok, data)
  \/ FetchRejected
  \/ JsonResolved
  \/ JsonRejected

Spec == Init /\ [][Next]_vars

\* The agent when every model call and every tool invocation returns: the
\* rejections are left out, and an operation that can settle does settle.
\* The user may stay silent, and a stream may deliver any number of
\* fragments up to its bound before it ends.  The loop looks at no text, so
\* one line and one text fragment stand for all; every batch is kept.
FairLines == {<<"h", "i">>}
FairParts == {Part(<<"a">>), PartWith(<<>>, <<>>)} \cup {p \in Parts : HasBatch(p)}

FairInit == Init /\ program = "agent"

FairNext ==
  \/ \E userInput \in FairLines : UserLine(userInput)
  \/ ChatResolved
  \/ \E part \in FairParts : NextPart(part)
  \/ StreamDone
  \/ \E outcome \in ExecOutcomes : ToolSettled(outcome)

Fairness ==
  /\ WF_vars(ChatResolved)
  /\ WF_vars(StreamDone)
  /\ WF_vars(\E outcome \in ExecOutcomes : ToolSettled(outcome))

FairSpec == FairInit /\ [][FairNext]_vars /\ Fairness

\* ------------------------------- the tool functions, called directly
\* The five tools are exported: a caller can apply one to arguments of its
\* own choice, on any file.  One call is made on a working tree that holds
\* f.js with an arbitrary content; direct records the call, the file system
\* before it and what the promise settled with.
Letters == {"a", "b"}
RECURSIVE Texts(_, _)
Texts(alphabet, n) ==
  IF n = 0 THEN {<<>>}
  ELSE Texts(alphabet, n - 1)
       \cup {Append(t, c) : t \in Texts(alphabet, n - 1), c \in alphabet}

Contents == Texts(Letters \cup {NL}, MaxContent)
OldStrings == Texts(Letters, MaxOld)
NewStrings == {<<>>, <<"b">>, <<"b", "b">>, <<"$">>, <<"$", "$">>, <<"$", "&">>}

EditArgs ==
  {[filePath |-> "f.js", oldString |-> o, newString |-> n] :
     o \in OldStrings, n \in NewStrings}
  \cup {[filePath |-> "f.js", oldString |-> o, newString |-> n, replaceAll |-> all] :
          o \in OldStrings, n \in NewStrings, all \in BOOLEAN}
  \cup {[filePath |-> "g.js", oldString |-> <<"a">>, newString |-> <<"b">>]}

Offsets == (0 - 1)..(MaxContent + 2)
Limits == (0 - 1)..(MaxContent + 1)
ReadArgs ==
  {[filePath |-> "f.js"], [filePath |-> "g.js"]}
  \cup {[filePath |-> "f.js", offset |-> o] : o \in Offsets}
  \cup {[filePath |-> "f.js", limit |-> l] : l \in Limits}
  \cup {[filePath |-> "f.js", offset |-> o, limit |-> l] : o \in Offsets, l \in Limits}

SearchArgs ==
  {[pattern |-> <<"a">>], [pattern |-> <<"a">>, path |-> "f.js", caseInsensitive |-> TRUE]}

DirectCall(name, args, r) ==
  [name |-> name, args |-> args, before |-> files, threw |-> r.threw,
   result |-> IF r.threw THEN r.message ELSE r.value]

ToolsInit ==
  /\ program = "tools"
  /\ pc = "Direct"
  /\ pending = {}
  /\ messages = <<SystemMessage>>
  /\ response = <<>>
  /\ fullResponse = <<>>
  /\ toolCalls = <<>>
  /\ idx = 0
  /\ tool = Undefined
  /\ files \in {[p \in {"f.js"} |-> content] : content \in Contents}
  /\ stdout = <<>>
  /\ sent = <<>>
  /\ requests = 0
  /\ completed = 0
  /\ inputs = <<>>
  /\ uncaught = "none"
  /\ mutator = "none"
  /\ direct = NoCall

ToolsFrame ==
  UNCHANGED <<program, pc, pending, messages, response, fullResponse, toolCalls, idx,
              tool, stdout, sent, requests, completed, inputs, uncaught, mutator>>

DirectEditFile(args) ==
  /\ program = "tools"
  /\ direct = NoCall
  /\ LET r == editFile(args, files)
     IN /\ files' = r.files
        /\ direct' = DirectCall("editFile", args, r)
  /\ ToolsFrame

DirectReadFile(args) ==
  /\ program = "tools"
  /\ direct = NoCall
  /\ LET r == readFile(args, files)
     IN /\ files' = r.files
        /\ direct' = DirectCall("readFile", args, r)
  /\ ToolsFrame

\* the outcome of the grep command is what exec settles with
DirectSearchFileContents(args, outcome) ==
  /\ program = "tools"
  /\ direct = NoCall
  /\ LET r == searchFileContents(args, files, outcome)
     IN /\ files' = r.files
        /\ direct' = DirectCall("searchFileContents", args, r) @@ [exec |-> outcome]
  /\ ToolsFrame

ToolsNext ==
  \/ \E args \in EditArgs : DirectEditFile(args)
  \/ \E args \in ReadArgs : DirectReadFile(args)
  \/ \E args \in SearchArgs, outcome \in ExecOutcomes : DirectSearchFileContents(args, outcome)

ToolsSpec == ToolsInit /\ [][ToolsNext]_vars

TypeOK ==
  /\ program \in {"agent", "stream", "no-stream"}
  /\ pc \in {"AwaitingUser", "AwaitingChat", "Streaming", "AwaitingTool",
             "AwaitingFetch", "AwaitingJson", "Crashed"}
  /\ requests \in 0..MaxRequests
  /\ Len(inputs) <= MaxRequests
  /\ Len(response) <= MaxFragments

\* ------------------------------------------------- reading a history
Last(h) == h[Len(h)]
IsPrefix(a, b) == Len(a) <= Len(b) /\ SubSeq(b, 1, Len(a)) = a
StoredCalls(m) == IF "tool_calls" \in DOMAIN m THEN m.tool_calls ELSE <<>>
CountRole(h, role) == Cardinality({j \in 1..Len(h) : h[j].role = role})
\* position of the last message of a role, 0 when there is none
LastIndex(h, role) ==
  IF \E j \in 1..Len(h) : h[j].role = role
  THEN CHOOSE j \in 1..Len(h) : h[j].role = role /\ \A k \in (j + 1)..Len(h) : h[k].role # role
  ELSE 0

RECURSIVE ConcatContent(_)
ConcatContent(parts) ==
  IF parts = <<>> THEN <<>>
  ELSE Head(parts).message.content \o ConcatContent(Tail(parts))

\* the last non-empty batch carried by a fragment, <<>> when there is none
RECURSIVE LastNonEmptyBatch(_)
LastNonEmptyBatch(parts) ==
  IF parts = <<>> THEN <<>>
  ELSE IF HasBatch(Last(parts)) THEN Last(parts).message.tool_calls
  ELSE LastNonEmptyBatch(SubSeq(parts, 1, Len(parts) - 1))

ErrorHeads ==
  {"Error: oldString not found in file. Please ensure exact matching including indentation.",
   "Error editing file: ", "Error reading file: ", "Error creating file: ",
   "Error finding files: ", "Error executing ", "Error: Tool "}
IsErrorText(text) == text # <<>> /\ Head(text) \in ErrorHeads

Agent == program = "agent"
TurnCompletes == completed' = completed + 1

\* ------------------------------------------------------------- claims

\* C1: when a model turn of the agent completes, the assistant message
\* holds the concatenation of all fragments' content in arrival order, and
\* the batch stored and returned is the last NON-EMPTY batch any fragment
\* carried: a later fragment with an empty batch erases nothing.
C1_TurnStep ==
  (Agent /\ TurnCompletes) =>
    /\ Last(messages').content = ConcatContent(response)
    /\ StoredCalls(Last(messages')) = LastNonEmptyBatch(response)
    /\ toolCalls' = LastNonEmptyBatch(response)
C1_LastNonEmptyBatchKept == [][C1_TurnStep]_vars

\* C2: a batch of N >= 1 tool calls is followed in the history by exactly N
\* tool messages, the i-th named after the i-th call and carrying its
\* result; every history sent with a model request holds all N results of
\* every batch in it.
C2_Shape(h) ==
  \A j \in 1..Len(h) :
    (h[j].role = "assistant" /\ StoredCalls(h[j]) # <<>>) =>
      LET calls == StoredCalls(h[j])
          N == Len(calls)
      IN /\ \A k \in 1..N :
              j + k <= Len(h) =>
                /\ h[j + k].role = "tool"
                /\ "name" \in DOMAIN h[j + k]
                /\ h[j + k].name = calls[k].function.name
         /\ j + N + 1 <= Len(h) => h[j + N + 1].role = "assistant"
C2_Complete(h) ==
  \A j \in 1..Len(h) :
    h[j].role = "assistant" => j + Len(StoredCalls(h[j])) <= Len(h)
C2_ResultStep ==
  (Agent /\ Len(messages') > Len(messages) /\ Last(messages').role = "tool") =>
    /\ pc = "AwaitingTool"
    /\ \E outcome \in ExecOutcomes :
         Last(messages') =
           [role |-> "tool",
            content |-> executeToolResult(toolCalls[idx], files, outcome).value,
            name |-> toolCalls[idx].function.name]
    /\ toolCalls = StoredCalls(messages[LastIndex(messages, "assistant")])
    /\ idx = Len(messages') - LastIndex(messages, "assistant")
C2_BatchResultsBeforeNextTurn ==
  /\ [](Agent => (C2_Shape(messages) /\ C2_Shape(sent) /\ C2_Complete(sent)))
  /\ [][C2_ResultStep]_vars
C2_Witness ==
  /\ Agent
  /\ pc = "AwaitingChat"
  /\ \E j \in 1..Len(sent) :
       /\ Len(StoredCalls(sent[j])) = 2
       /\ j + 2 = Len(sent)
       /\ sent[j + 1].role = "tool" /\ sent[j + 2].role = "tool"
       /\ sent[j + 1].name # sent[j + 2].name

\* C3: a completed model turn leads back to reading the user if and only if
\* it returned no tool calls; after a non-empty batch the tools run and the
\* next model request follows with no user line read in between.
C3_TurnStep ==
  /\ (Agent /\ completed' = completed + 1) =>
       /\ (pc' = "AwaitingUser") <=> (toolCalls = <<>>)
       /\ toolCalls # <<>> => pc' = "AwaitingTool"
  /\ (Agent /\ pc' = "AwaitingUser" /\ pc # "AwaitingUser") =>
       (completed' = completed + 1 /\ toolCalls = <<>>)
  /\ (Agent /\ pc = "AwaitingTool" /\ pc' # "AwaitingTool") =>
       (pc' = "AwaitingChat" /\ requests' = requests + 1 /\ inputs' = inputs)
  /\ (Agent /\ inputs' # inputs) => pc = "AwaitingUser"
C3_UserOnlyAfterEmptyTurn ==
  \A j \in 1..Len(messages) :
    messages[j].role = "user" =>
      /\ j >= 2
      /\ \/ messages[j - 1].role = "system"
         \/ messages[j - 1].role = "assistant" /\ StoredCalls(messages[j - 1]) = <<>>
C3_UserIffNoToolCalls ==
  /\ [][C3_TurnStep]_vars
  /\ [](Agent => C3_UserOnlyAfterEmptyTurn)
C3_Witness ==
  /\ Agent
  /\ pc = "AwaitingUser"
  /\ completed = 2
  /\ \E j \in 1..Len(messages) : messages[j].role = "tool"

\* C4: every completed model turn appends exactly one assistant message with
\* the whole text and the retained batch (no tool_calls when it is empty);
\* the history holds as many assistant messages as turns have completed.
C4_TurnStep ==
  TurnCompletes =>
    /\ Len(response) <= MaxFragments
    /\ messages' =
         Append(messages,
                IF Agent /\ toolCalls # <<>>
                THEN [role |-> "assistant", content |-> ConcatContent(response),
                      tool_calls |-> toolCalls]
                ELSE [role |-> "assistant", content |-> ConcatContent(response)])
    /\ toolCalls' = toolCalls
C4_Counted ==
  /\ CountRole(messages, "assistant") = completed
  /\ \A j \in 1..Len(messages) :
       "tool_calls" \in DOMAIN messages[j] =>
         (messages[j].role = "assistant" /\ messages[j].tool_calls # <<>>)
C4_OneAssistantPerTurn ==
  /\ [][C4_TurnStep]_vars
  /\ []C4_Counted
C4_Witness ==
  /\ Agent
  /\ completed = 2
  /\ Last(messages).role = "assistant"
  /\ Last(messages).content = <<"a", "b">>
  /\ \E j \in 1..Len(messages) : "tool_calls" \in DOMAIN messages[j]

\* C5: every tool message is preceded by an assistant message whose batch
\* holds a call of the same name, with no user message between the two.
C5_ToolFollowsDeclaringAssistant ==
  Agent =>
    \A j \in 1..Len(messages) :
      messages[j].role = "tool" =>
        \E i \in 1..(j - 1) :
          /\ messages[i].role = "assistant"
          /\ "name" \in DOMAIN messages[j]
          /\ \E k \in 1..Len(StoredCalls(messages[i])) :
               StoredCalls(messages[i])[k].function.name = messages[j].name
          /\ \A m \in (i + 1)..(j - 1) : messages[m].role # "user"
C5_Witness ==
  /\ Agent
  /\ Len(messages) >= 5
  /\ messages[4].role = "tool"
  /\ messages[5].role = "tool"
  /\ messages[5].name = "searchFileContents"

\* C6: a failing tool call never aborts the loop: its failure text is
\* appended as an ordinary tool message, the next call of the batch is
\* started, and after the last call another model turn is requested with a
\* history that holds the failure text.
C6_ToolStep ==
  (Agent /\ pc = "AwaitingTool") =>
    /\ pc' \in {"AwaitingTool", "AwaitingChat"}
    /\ uncaught' = "none"
    /\ messages' # messages
    /\ SubSeq(messages', 1, Len(messages)) = messages
    /\ Len(messages') = Len(messages) + 1
    /\ Last(messages').role = "tool"
    /\ IsErrorText(Last(messages').content) =>
         IF idx < Len(toolCalls)
         THEN pc' = "AwaitingTool" /\ idx' = idx + 1 /\ ToolOp(idx + 1) \in pending'
         ELSE pc' = "AwaitingChat" /\ requests' = requests + 1 /\ sent' = messages'
C6_ToolFailureIsAMessage == [][C6_ToolStep]_vars
C6_Witness ==
  /\ Agent
  /\ pc = "AwaitingChat"
  /\ Len(sent) = 5
  /\ sent[4] = [role |-> "tool",
                content |-> <<"Error: oldString not found in file. Please ensure exact matching including indentation.">>,
                name |-> "editFile"]
  /\ sent[5].role = "tool"
  /\ sent[5].name = "findFiles"

\* C7: for a tool-call name outside the five registered tools, executeTool
\* calls no implementation and its result is an error text, appended as a
\* tool message, after which the conversation goes on.
C7_UnregisteredNameIsAnError ==
  Agent =>
    /\ (pc = "AwaitingTool" /\ toolCalls[idx].function.name \notin OwnTools) =>
         tool = Undefined
    /\ \A j \in 1..Len(messages) :
         (messages[j].role = "tool" /\ messages[j].name \notin OwnTools) =>
           IsErrorText(messages[j].content)

\* C8: a failed model call is final: the failing step appends nothing,
\* starts nothing and leaves nothing in flight, and no step follows it.
C8_FailStep ==
  /\ uncaught' # "none" =>
       /\ pc' = "Crashed"
       /\ pending' = {}
       /\ messages' = messages
       /\ requests' = requests
       /\ completed' = completed
       /\ inputs' = inputs
       /\ stdout' = stdout
       /\ files' = files
  /\ pc = "Crashed" => UNCHANGED vars
C8_ModelFailureIsFinal ==
  /\ [][C8_FailStep]_vars
  /\ []((pc = "Crashed") <=> (uncaught # "none"))
  /\ [](pc = "Crashed" => (pending = {} /\ completed = requests - 1))
C8_Witness ==
  /\ Agent
  /\ pc = "Crashed"
  /\ uncaught = "response stream failed"
  /\ requests = 2
  /\ Last(messages).role = "tool"

\* C9: at most one operation is in flight; a tool call is in flight only
\* after its model turn completed and the results of the calls before it
\* were appended; a model turn is in flight only when every call of the
\* previous batch has its result in the history.
C9_ToolsSince == Len(messages) - LastIndex(messages, "assistant")
C9_OneOperationInFlight ==
  /\ Cardinality(pending) <= 1
  /\ Agent =>
       \A o \in pending :
         /\ o.op = "executeTool" =>
              /\ completed = requests
              /\ LastIndex(messages, "assistant") > 0
              /\ toolCalls = StoredCalls(messages[LastIndex(messages, "assistant")])
              /\ o.i = idx
              /\ o.i \in 1..Len(toolCalls)
              /\ C9_ToolsSince = o.i - 1
         /\ o.op \in {"chat", "next"} =>
              /\ completed = requests - 1
              /\ Last(messages).role \in {"user", "tool"}
              /\ Last(messages).role = "tool" =>
                   C9_ToolsSince = Len(StoredCalls(messages[LastIndex(messages, "assistant")]))
         /\ o.op = "question" =>
              /\ completed = requests
              /\ Last(messages).role \in {"system", "assistant"}
C9_Witness ==
  /\ Agent
  /\ pending = {ToolOp(2)}
  /\ Last(messages).role = "tool"

\* C10: the history only grows at its end: every step leaves the old
\* history as a prefix of the new one, and the system message stays first.
C10_AppendOnly ==
  /\ [][IsPrefix(messages, messages')]_vars
  /\ [](Agent => (messages # <<>> /\ messages[1] = SystemMessage))
C10_Witness ==
  /\ Agent
  /\ Len(messages) >= 6
  /\ messages[1] = SystemMessage
  /\ \E j \in 1..Len(messages) : messages[j].role = "tool"

\* C11: every line read from the user, the empty line included, appends
\* exactly one user message whose content is that line unchanged, in the
\* step that issues the model request answering it: the history sent with
\* that request ends with this message, and no turn completes in between.
C11_LineStep ==
  (inputs' # inputs) =>
    /\ Len(inputs') = Len(inputs) + 1
    /\ messages' = Append(messages, [role |-> "user", content |-> Last(inputs')])
    /\ sent' = messages'
    /\ requests' = requests + 1
    /\ completed' = completed
C11_LineAppendedBeforeItsTurn == [][C11_LineStep]_vars
C11_Witness ==
  /\ program = "no-stream"
  /\ pc = "AwaitingFetch"
  /\ Len(inputs) = 2
  /\ Last(inputs) = <<>>
  /\ Last(sent) = [role |-> "user", content |-> <<>>]

\* C12: the non-streaming variant treats a reply (text plus tool-call batch,
\* delivered in one body) as the tool-calling agent treats the same reply
\* delivered as one fragment: the assistant message stores the text and the
\* non-empty batch, and after a non-empty batch the user is not asked again
\* before the tools have run.
C12_ReplyBatch ==
  IF "tool_calls" \in DOMAIN response[1].message
  THEN response[1].message.tool_calls
  ELSE <<>>
C12_TurnStep ==
  (program = "no-stream" /\ TurnCompletes) =>
    /\ messages' = Append(messages,
                          AssistantMessage(response[1].message.content, C12_ReplyBatch))
    /\ (pc' = "AwaitingUser") = NoToolCalls(C12_ReplyBatch)
C12_SameSemanticsAsAgent == [][C12_TurnStep]_vars

\* ------------------------------------------ claims about the tools
\* pat occurs verbatim in s
Occurs(pat, s) ==
  \E i \in 1..(Len(s) + 1) :
    i + Len(pat) - 1 <= Len(s) /\ SubSeq(s, i, i + Len(pat) - 1) = pat
Called(name) == direct.name = name
OnExistingFile == direct.args.filePath \in DOMAIN direct.before
ContentBefore == direct.before[direct.args.filePath]

\* C13: editFile with an oldString that does not occur verbatim in the
\* target file returns an error string and writes nothing: the file system
\* after the call is the file system before it.
C13_AbsentOldStringWritesNothing ==
  (Called("editFile") /\ OnExistingFile /\ ~Occurs(direct.args.oldString, ContentBefore)) =>
    /\ ~direct.threw
    /\ IsErrorText(direct.result)
    /\ files = direct.before
C13_Witness ==
  /\ Called("editFile")
  /\ OnExistingFile
  /\ ContentBefore = <<"a", NL, "b">>
  /\ direct.args.oldString = <<"a", "b">>
  /\ IsErrorText(direct.result)
  /\ files = direct.before

\* C14: for every content, every non-empty oldString occurring in it and
\* every newString, editFile without replaceAll (or with replaceAll false)
\* writes the content with exactly the first occurrence of oldString
\* replaced by newString taken literally, and with replaceAll true writes
\* the content with every occurrence replaced by newString taken literally.
OccursAt(pat, s, i) == i + Len(pat) - 1 <= Len(s) /\ SubSeq(s, i, i + Len(pat) - 1) = pat
FirstAt(pat, s) ==
  CHOOSE i \in 1..(Len(s) + 1) :
    OccursAt(pat, s, i) /\ \A j \in 1..(i - 1) : ~OccursAt(pat, s, j)
FirstLiteral(s, old, new) ==
  SubSeq(s, 1, FirstAt(old, s) - 1) \o new \o SubSeq(s, FirstAt(old, s) + Len(old), Len(s))
RECURSIVE AllLiteral(_, _, _)
AllLiteral(s, old, new) ==
  IF ~Occurs(old, s) THEN s
  ELSE SubSeq(s, 1, FirstAt(old, s) - 1) \o new
       \o AllLiteral(SubSeq(s, FirstAt(old, s) + Len(old), Len(s)), old, new)
C14_NewStringTakenLiterally ==
  (/\ Called("editFile")
   /\ OnExistingFile
   /\ direct.args.oldString # <<>>
   /\ Occurs(direct.args.oldString, ContentBefore)) =>
    /\ ~direct.threw
    /\ files[direct.args.filePath] =
         IF Truthy(direct.args, "replaceAll")
         THEN AllLiteral(ContentBefore, direct.args.oldString, direct.args.newString)
         ELSE FirstLiteral(ContentBefore, direct.args.oldString, direct.args.newString)

\* C15: for every file, offset and limit, readFile returns at most limit
\* lines: the file's lines numbered offset through offset+limit-1 that
\* exist, each prefixed with its own 1-indexed line number; an offset
\* beyond the end of the file gives the empty text, not an error string.
FileLines(content) == Split(content, <<NL>>)
Numbered(lines, lo, hi) ==
  Join([k \in 1..(hi - lo + 1) |-> <<ToString(lo + k - 1), " | ">> \o lines[lo + k - 1]],
       <<NL>>)
ExpectedLines(lines, offset, limit) ==
  Numbered(lines,
           IF offset < 1 THEN 1 ELSE offset,
           IF offset + limit - 1 > Len(lines) THEN Len(lines) ELSE offset + limit - 1)
C15_LinesOffsetThroughLimit ==
  (Called("readFile") /\ OnExistingFile) =>
    /\ ~direct.threw
    /\ direct.result = ExpectedLines(FileLines(ContentBefore),
                                     Arg(direct.args, "offset", 1),
                                     Arg(direct.args, "limit", 2000))
    /\ files = direct.before

\* C16: searchFileContents tells its outcomes apart and never throws: the
\* matched lines when the command produced output, "No matches found."
\* when grep ran and matched nothing, and an error string other than
\* "No matches found." when the command could not be run at all.
NoMatches == <<"No matches found.">>
C16_OutcomesDistinguished ==
  Called("searchFileContents") =>
    /\ ~direct.threw
    /\ (direct.exec.kind = "resolved" /\ direct.exec.stdout # <<>>) =>
         direct.result = Trim(direct.exec.stdout)
    /\ (direct.exec.kind = "rejected" /\ direct.exec.cause = "exit 1") =>
         direct.result = NoMatches
    /\ (direct.exec.kind = "rejected" /\ direct.exec.cause = "spawn") =>
         direct.result # NoMatches

\* C17: while a streamed turn is being consumed, after the k-th fragment
\* the terminal shows, after the "Agent: " prompt of this turn, exactly the
\* concatenation of the first k fragments' text, for every k; each step
\* that consumes a fragment appends that fragment's text and nothing else.
EmittedThisTurn == Write(<<>>, AgentPrompt \o ConcatContent(response))
C17_FragmentStep ==
  (pc = "Streaming" /\ Len(response') = Len(response) + 1) =>
    stdout' = Write(stdout, Last(response').message.content)
C17_EmittedAsConsumed ==
  /\ [](pc = "Streaming" =>
          /\ Len(stdout) >= Len(EmittedThisTurn)
          /\ SubSeq(stdout, Len(stdout) - Len(EmittedThisTurn) + 1, Len(stdout))
               = EmittedThisTurn)
  /\ [][C17_FragmentStep]_vars
C17_Witness ==
  /\ Agent
  /\ pc = "Streaming"
  /\ Len(response) = 2
  /\ ConcatContent(response) = <<"a", "b">>
  /\ requests = 2
  /\ SubSeq(stdout, Len(stdout) - 1, Len(stdout)) = Write(<<>>, <<"a", "b">>)

\* C18: every tool call the controller dispatches has exactly one trace
\* line on the terminal, with the call's name and serialized arguments,
\* emitted before the tool settles and before its tool message is
\* appended; the trace lines appear in the order of the calls.
RECURSIVE TraceLines(_)
TraceLines(out) ==
  IF out = <<>> THEN <<>>
  ELSE TraceLines(SubSeq(out, 1, Len(out) - 1))
       \o (IF "json" \in DOMAIN Last(out)
           THEN <<[name |-> out[Len(out) - 2].text, arguments |-> Last(out).json]>>
           ELSE <<>>)
\* the call answered by the tool message at position j of a history
CallAnswered(h, j) ==
  LET a == CHOOSE k \in 1..(j - 1) :
             h[k].role = "assistant" /\ \A i \in (k + 1)..(j - 1) : h[i].role = "tool"
  IN h[a].tool_calls[j - a].function
RECURSIVE CallsAnswered(_, _)
CallsAnswered(h, j) ==
  IF j = 0 THEN <<>>
  ELSE CallsAnswered(h, j - 1)
       \o (IF h[j].role = "tool" THEN <<CallAnswered(h, j)>> ELSE <<>>)
CallsDispatched ==
  CallsAnswered(messages, Len(messages))
  \o (IF pc = "AwaitingTool" THEN <<toolCalls[idx].function>> ELSE <<>>)
C18_TraceBeforeToolAndResult ==
  Agent => TraceLines(stdout) = CallsDispatched
C18_Witness ==
  /\ Agent
  /\ pc = "AwaitingTool"
  /\ idx = 2
  /\ Len(TraceLines(stdout)) = 2
  /\ CountRole(messages, "tool") = 1
  /\ TraceLines(stdout)[1] # TraceLines(stdout)[2]

\* C19 (as stated): every append to the history is made by the Turn
\* Controller, chat; callAgent, executeTool and the tools leave the live
\* history unchanged.
C19_OnlyChatMutates == [][messages' # messages => mutator' = "chat"]_vars

\* C19 (amended): the history is appended to by chat and by callAgent only.
\* In the agent callAgent pushes the assistant message of every turn onto
\* the live array it was handed, and chat pushes the user and tool
\* messages; in the two chats without tools chat pushes every message.
\* executeTool and the tools never push, and no step removes or rewrites.
C19_AppendStep ==
  (messages' # messages) =>
    /\ messages' = Append(messages, Last(messages'))
    /\ mutator' = IF Agent /\ Last(messages').role = "assistant"
                  THEN "callAgent" ELSE "chat"
C19_ChatAndCallAgentMutate ==
  /\ [][C19_AppendStep]_vars
  /\ [](mutator \in {"none", "chat", "callAgent"})
C19_Witness ==
  /\ Agent
  /\ mutator = "callAgent"
  /\ pc = "AwaitingTool"
  /\ Last(messages).role = "assistant"
  /\ StoredCalls(Last(messages)) = toolCalls

\* C20: when every model call and every tool invocation returns, every
\* model turn completes and every batch is followed by another model turn,
\* however many turns there have been since the user's line: the inner
\* loop has no cap.  The controller returns to AwaitingUser exactly at a
\* turn with an empty batch; a turn with a non-empty batch keeps it in the
\* loop and reads no user input.
C20_TurnStep ==
  /\ (pc # "AwaitingUser" /\ pc' = "AwaitingUser") =>
       (TurnCompletes /\ toolCalls = <<>>)
  /\ (TurnCompletes /\ toolCalls = <<>>) => pc' = "AwaitingUser"
  /\ (TurnCompletes /\ toolCalls # <<>>) =>
       (pc' = "AwaitingTool" /\ inputs' = inputs)
  /\ (pc = "AwaitingTool") => (pc' \in {"AwaitingTool", "AwaitingChat"} /\ inputs' = inputs)
====
